---------------------------- MODULE Spec2Model ----------------------------
(***************************************************************************)
(* Model of the three Streamlit report pages hilal.py, stock.py and        *)
(* variance.py: the spreadsheet load, the metric derivation (Total Sales,  *)
(* Total Profit, GP), the category aggregation, the sidebar filters and    *)
(* the outcome every script run reports.                                   *)
(*                                                                         *)
(* Text (headers, categories, names, search strings) is a sequence of      *)
(* one-character strings, so that substring tests, suffix tests, case      *)
(* folding and whitespace stripping are computed, not assumed.  A number   *)
(* is an exact rational n/d (pandas holds a float64; rounding of the       *)
(* binary representation is not modelled).                                 *)
(***************************************************************************)
EXTENDS Integers, Sequences, FiniteSets, TLC

\* ------------------------------------------------------------------ text

UpperCase == <<"A","B","C","D","E","F","G","H","I","J","K","L","M",
               "N","O","P","Q","R","S","T","U","V","W","X","Y","Z">>

LowerCase == <<"a","b","c","d","e","f","g","h","i","j","k","l","m",
               "n","o","p","q","r","s","t","u","v","w","x","y","z">>

Digits == <<"0","1","2","3","4","5","6","7","8","9">>

SeqRange(s) == {s[i] : i \in 1..Len(s)}

\* str.lower() on one character
Lower(c) ==
    IF c \in SeqRange(UpperCase)
    THEN LowerCase[CHOOSE i \in 1..Len(UpperCase) : UpperCase[i] = c]
    ELSE c

\* str.lower()
StrLower(s) == [i \in 1..Len(s) |-> Lower(s[i])]

\* Python's `sub in s`
Contains(s, sub) ==
    \E i \in 0..(Len(s) - Len(sub)) : SubSeq(s, i + 1, i + Len(sub)) = sub

\* re.search(r'(sub)$', s): sub is a suffix of s
EndsWith(s, sub) ==
    /\ Len(sub) <= Len(s)
    /\ SubSeq(s, Len(s) - Len(sub) + 1, Len(s)) = sub

IsSpace(c) == c = " "

RECURSIVE LStrip(_)
LStrip(s) == IF s # <<>> /\ IsSpace(Head(s)) THEN LStrip(Tail(s)) ELSE s

RECURSIVE RStrip(_)
RStrip(s) ==
    IF s # <<>> /\ IsSpace(s[Len(s)]) THEN RStrip(SubSeq(s, 1, Len(s) - 1)) ELSE s

\* str.strip()
Strip(s) == LStrip(RStrip(s))

\* the characters kept by str.replace(r'[^a-zA-Z0-9\s-]', '', regex=True)
KeptChar(c) ==
    c \in SeqRange(UpperCase) \cup SeqRange(LowerCase) \cup SeqRange(Digits) \cup {" ", "-"}

RemoveSpecial(s) == SelectSeq(s, KeptChar)

\* ------------------------------------------------------------------ cells

RECURSIVE GCD(_, _)
GCD(a, b) == IF b = 0 THEN a ELSE GCD(b, a % b)

Abs(n) == IF n < 0 THEN -n ELSE n

\* a finite number n/d, d > 0, in lowest terms
Rat(n, d) ==
    LET g == GCD(Abs(n), Abs(d))
        sgn == IF d < 0 THEN -1 ELSE 1
    IN  [k |-> "num", n |-> sgn * (n \div g), d |-> sgn * (d \div g), s |-> <<>>]

Num(n) == [k |-> "num", n |-> n, d |-> 1, s |-> <<>>]
NaN == [k |-> "nan", n |-> 0, d |-> 1, s |-> <<>>]
Inf == [k |-> "inf", n |-> 1, d |-> 1, s |-> <<>>]
NegInf == [k |-> "inf", n |-> -1, d |-> 1, s |-> <<>>]
Str(s) == [k |-> "str", n |-> 0, d |-> 1, s |-> s]

IsNum(c) == c.k = "num"

Zero == Num(0)

RAdd(a, b) == Rat(a.n * b.d + b.n * a.d, a.d * b.d)
RMul(a, b) == Rat(a.n * b.n, a.d * b.d)
RLt(a, b) == a.n * b.d < b.n * a.d
RGe(a, b) == ~RLt(a, b)

\* float division a / b of two finite numbers
RDiv(a, b) ==
    IF b.n # 0 THEN Rat(a.n * b.d, a.d * b.n)
    ELSE IF a.n > 0 THEN Inf
    ELSE IF a.n < 0 THEN NegInf
    ELSE NaN

\* n/d (d > 0) rounded to the nearest integer, ties to even (numpy's round)
RoundHalfEven(n, d) ==
    LET q == n \div d
        r == n - q * d
    IN  IF 2 * r < d THEN q
        ELSE IF 2 * r > d THEN q + 1
        ELSE IF q % 2 = 0 THEN q ELSE q + 1

\* Series.round(2): NaN and the infinities stay as they are
Round2(c) == IF IsNum(c) THEN Rat(RoundHalfEven(c.n * 100, c.d), 100) ELSE c

\* Series.replace([inf, -inf], 0)
ReplaceInf(c) == IF c.k = "inf" THEN Zero ELSE c

\* Series.fillna(v)
FillNa(c, v) == IF c.k = "nan" THEN v ELSE c

RECURSIVE DigitsOf(_)
DigitsOf(n) ==
    IF n < 10 THEN <<Digits[n + 1]>> ELSE DigitsOf(n \div 10) \o <<Digits[(n % 10) + 1]>>

\* Series.astype(str) on one cell: a missing cell becomes the text 'nan'
AsStr(c) ==
    IF c.k = "str" THEN c.s
    ELSE IF c.k = "nan" THEN <<"n","a","n">>
    ELSE IF c.k = "inf" THEN (IF c.n < 0 THEN <<"-">> ELSE <<>>) \o <<"i","n","f">>
    ELSE IF c.d = 1 THEN (IF c.n < 0 THEN <<"-">> ELSE <<>>) \o DigitsOf(Abs(c.n))
    ELSE <<"?">>

\* pd.to_numeric(errors='coerce') on one cell
ToNumeric(c) == IF c.k = "str" THEN NaN ELSE c

\* ------------------------------------------------------------------ tables

\* pd.DataFrame(): no columns, no rows
EmptyFrame == [cols |-> <<>>, rows |-> <<>>]

\* DataFrame.empty
IsEmpty(df) == Len(df.cols) = 0 \/ Len(df.rows) = 0

HasCol(df, c) == c \in SeqRange(df.cols)

\* df[c] = F(row) for every row: overwrites column c or appends it
SetCol(df, c, F(_)) ==
    [cols |-> IF HasCol(df, c) THEN df.cols ELSE Append(df.cols, c),
     rows |-> [i \in 1..Len(df.rows) |->
                 [h \in DOMAIN df.rows[i] \cup {c} |->
                     IF h = c THEN F(df.rows[i]) ELSE df.rows[i][h]]]]

\* df[mask]: the rows satisfying P, in order
FilterRows(df, P(_)) == [cols |-> df.cols, rows |-> SelectSeq(df.rows, P)]

RECURSIVE SumSeq(_)
SumSeq(s) == IF s = <<>> THEN Zero ELSE RAdd(Head(s), SumSeq(Tail(s)))

\* Series.sum() / DataFrame.sum(axis=1): missing cells are skipped
SkipNa(c) == IF IsNum(c) THEN c ELSE Zero

\* df[cols].sum(axis=1) for one row
RowSum(row, cols) == SumSeq([i \in 1..Len(cols) |-> SkipNa(row[cols[i]])])

\* df[c].sum()
ColSum(df, c) == SumSeq([i \in 1..Len(df.rows) |-> SkipNa(df.rows[i][c])])


\* ------------------------------------------------------------------ names

Category == <<"C","a","t","e","g","o","r","y">>
TotalSales == <<"T","o","t","a","l"," ","S","a","l","e","s">>
TotalProfit == <<"T","o","t","a","l"," ","P","r","o","f","i","t">>
GPpct == <<"G","P","%">>
GP == <<"G","P">>
Unknown == <<"U","n","k","n","o","w","n">>
All == <<"A","l","l">>
AllCategories == <<"A","l","l"," ","C","a","t","e","g","o","r","i","e","s">>
Total_Sales == <<"T","o","t","a","l","_","S","a","l","e","s">>
Total_Profit == <<"T","o","t","a","l","_","P","r","o","f","i","t">>

\* the headers the modelled spreadsheets use
H_ItemCode == <<"I","t","e","m"," ","C","o","d","e">>
H_Items == <<"I","t","e","m","s">>
H_JulSales == <<"J","u","l"," ","T","o","t","a","l"," ","S","a","l","e","s">>
H_JulProfit == <<"J","u","l"," ","T","o","t","a","l"," ","P","r","o","f","i","t">>
H_AugSales == <<"A","u","g"," ","T","o","t","a","l"," ","S","a","l","e","s">>
H_AugProfit == <<"A","u","g"," ","T","o","t","a","l"," ","P","r","o","f","i","t">>
H_AugSalesLc == <<"A","u","g"," ","t","o","t","a","l"," ","s","a","l","e","s">>
H_AugProfitLc == <<"A","u","g"," ","t","o","t","a","l"," ","p","r","o","f","i","t">>
H_BarcodeHash == <<"B","a","r","c","o","d","e","#">>
H_ItemName == <<" ","I","t","e","m"," ","N","a","m","e">>
H_CategorySp == <<"C","a","t","e","g","o","r","y"," ">>

\* ------------------------------------------------------------------ inputs

\* the largest number of rows of a modelled spreadsheet
MaxRows == 2

\* a layout: the headers of a sheet, each with the item field its cells hold
Layout(hs, fs) == [i \in 1..Len(hs) |-> [h |-> hs[i], f |-> fs[i]]]

Layouts ==
    { Layout(<<H_ItemCode, H_Items, Category, H_JulSales, H_JulProfit, H_AugSales, H_AugProfit>>,
             <<"code", "name", "cat", "s1", "p1", "s2", "p2">>),
      Layout(<<H_Items, Category, H_JulSales, H_JulProfit, H_AugSalesLc, H_AugProfitLc>>,
             <<"name", "cat", "s1", "p1", "s2", "p2">>),
      Layout(<<H_ItemCode, H_Items, Category>>,
             <<"code", "name", "cat">>),
      Layout(<<H_Items, H_JulSales, H_JulProfit>>,
             <<"name", "s1", "p1">>),
      Layout(<<H_BarcodeHash, H_ItemName, H_CategorySp, H_JulSales, H_JulProfit>>,
             <<"code", "name", "cat", "s1", "p1">>) }

Item(code, name, cat, s1, p1, s2, p2) ==
    [code |-> code, name |-> name, cat |-> cat, s1 |-> s1, p1 |-> p1, s2 |-> s2, p2 |-> p2]

\* the items a sheet may list, in sheet order
ItemPool ==
    << Item(Str(<<"a","1">>), Str(<<"T","e","a">>), Str(<<"D">>), Num(60), Num(15), Num(40), Num(5)),
       Item(Str(<<"b","2">>), Str(<<"N","u","t","s">>), Str(<<"S">>), Num(0), Num(0), NaN, NaN),
       Item(Str(<<"a","3">>), Str(<<"C","o","l","a">>), Str(<<" ","D">>), Num(1000), Num(50), Num(1), NaN),
       Item(Str(<<"b","4">>), NaN, Str(<<" ">>), Num(300), Num(90), Num(0), Num(0)),
       Item(Str(<<"c","5">>), Str(<<"B","u","n">>), NaN, Num(0), Num(5), NaN, NaN),
       Item(Str(<<"c","6">>), Str(<<"T","a","r","t">>), Str(<<"D">>), Num(50), Num(-5), NaN, Num(10)) >>

\* the row of a sheet with layout lay that lists item it
SheetRow(lay, it) ==
    [h \in {lay[i].h : i \in 1..Len(lay)} |->
        it[lay[CHOOSE i \in 1..Len(lay) : lay[i].h = h].f]]

\* the strictly increasing index sequences of 1..n with at most MaxRows entries
RECURSIVE Picks(_, _)
Picks(lo, n) ==
    {<<>>} \cup
    UNION { { <<i>> \o p : p \in {q \in Picks(i + 1, n) : Len(q) < MaxRows} } : i \in lo..n }

Sheet(lay, pick) ==
    [cols |-> [i \in 1..Len(lay) |-> lay[i].h],
     rows |-> [j \in 1..Len(pick) |-> SheetRow(lay, ItemPool[pick[j]])]]

\* what the file path holds: a readable sheet, no file, or a file that is not a sheet
Files ==
    { [status |-> "ok", sheet |-> Sheet(lay, pick)] :
          lay \in Layouts, pick \in Picks(1, Len(ItemPool)) }
    \cup { [status |-> st, sheet |-> EmptyFrame] : st \in {"missing", "corrupt"} }


\* ------------------------------------------------------------------ hilal.py, stock.py

\* [col for col in df.columns if 'Total Sales' in col]
hilal_sales_cols(df) == SelectSeq(df.cols, LAMBDA col : Contains(col, TotalSales))

\* [col for col in df.columns if 'Total Profit' in col]
hilal_profit_cols(df) == SelectSeq(df.cols, LAMBDA col : Contains(col, TotalProfit))

\* hilal_gp without the final fillna(0)
hilal_gp_nofill(row) ==
    ReplaceInf(Round2(
        LET q == RDiv(row[TotalProfit], row[TotalSales])
        IN  IF IsNum(q) THEN RMul(q, Num(100)) ELSE q))

\* (Total Profit / Total Sales * 100).round(2), then inf -> 0 and NaN -> 0
hilal_gp(row) ==
    FillNa(ReplaceInf(Round2(
        LET q == RDiv(row[TotalProfit], row[TotalSales])
        IN  IF IsNum(q) THEN RMul(q, Num(100)) ELSE q)), Zero)

\* the body of load_data after the read: fill the categories, derive the totals
\* and GP% (the caller has checked that df has a Category column)
hilal_derive(df) ==
    LET d1 == SetCol(df, Category, LAMBDA row : FillNa(row[Category], Str(Unknown)))
        sales_cols == hilal_sales_cols(d1)
        profit_cols == hilal_profit_cols(d1)
        d2 == SetCol(d1, TotalSales, LAMBDA row : RowSum(row, sales_cols))
        d3 == SetCol(d2, TotalProfit, LAMBDA row : RowSum(row, profit_cols))
    IN  SetCol(d3, GPpct, hilal_gp)

\* load_data(file_path): the table, the elements it wrote, the exception it raised
hilal_load_data(f) ==
    IF f.status # "ok"
    THEN [df |-> EmptyFrame, msgs |-> <<"error: Error loading file">>, exc |-> "none"]
    ELSE IF ~HasCol(f.sheet, Category)
    THEN [df |-> EmptyFrame, msgs |-> <<>>, exc |-> "KeyError: Category"]
    ELSE [df |-> hilal_derive(f.sheet), msgs |-> <<>>, exc |-> "none"]

\* df['Category'].unique(): the values of the column
Categories(df) == {df.rows[i][Category] : i \in 1..Len(df.rows)}

gp_options == {"All", "<5%", "5-10%", "10-20%", "20-30%", "30%+"}

\* filtered_df[filtered_df['Category'] == selected_category], unless 'All'
FilterCategory(df, selected_category) ==
    IF selected_category # Str(All)
    THEN FilterRows(df, LAMBDA row : row[Category] = selected_category)
    ELSE df

\* filtered_df[~filtered_df['Category'].isin(exclude_categories)], unless empty
FilterExclude(df, exclude_categories) ==
    IF exclude_categories # {}
    THEN FilterRows(df, LAMBDA row : row[Category] \notin exclude_categories)
    ELSE df

\* InBucket with the lower bounds exclusive
InBucket_exclusiveLower(selected_gp, gp) ==
    CASE selected_gp = "<5%" -> RLt(gp, Num(5))
      [] selected_gp = "5-10%" -> RLt(Num(5), gp) /\ RLt(gp, Num(10))
      [] selected_gp = "10-20%" -> RLt(Num(10), gp) /\ RLt(gp, Num(20))
      [] selected_gp = "20-30%" -> RLt(Num(20), gp) /\ RLt(gp, Num(30))
      [] selected_gp = "30%+" -> RLt(Num(30), gp)
      [] OTHER -> TRUE

\* the row mask of one GP% range
InBucket(selected_gp, gp) ==
    CASE selected_gp = "<5%" -> RLt(gp, Num(5))
      [] selected_gp = "5-10%" -> RGe(gp, Num(5)) /\ RLt(gp, Num(10))
      [] selected_gp = "10-20%" -> RGe(gp, Num(10)) /\ RLt(gp, Num(20))
      [] selected_gp = "20-30%" -> RGe(gp, Num(20)) /\ RLt(gp, Num(30))
      [] selected_gp = "30%+" -> RGe(gp, Num(30))
      [] OTHER -> TRUE

\* the GP% range filter, unless 'All'
FilterGP(df, selected_gp) ==
    IF selected_gp # "All"
    THEN FilterRows(df, LAMBDA row : InBucket(selected_gp, row[GPpct]))
    ELSE df

\* ApplyFilters with the exclusion applied to df instead of filtered_df, which
\* undoes the category filter
ApplyFilters_excludeFromDf(df, sel) ==
    FilterGP(IF sel.exclude # {} THEN FilterExclude(df, sel.exclude)
             ELSE FilterCategory(df, sel.category),
             sel.gp)

\* the Apply Filters block, in the order of the script
ApplyFilters(df, sel) ==
    FilterGP(FilterExclude(FilterCategory(df, sel.category), sel.exclude), sel.gp)

\* Series.mean()
ColMean(df, c) == RDiv(ColSum(df, c), Num(Len(df.rows)))

\* avg_gp without the test for an empty filtered_df: the mean of no rows
avg_gp_unguarded(filtered_df) == Round2(ColMean(filtered_df, GPpct))

\* filtered_df['GP%'].mean().round(2) if not filtered_df.empty else 0
avg_gp(filtered_df) ==
    IF ~IsEmpty(filtered_df) THEN Round2(ColMean(filtered_df, GPpct)) ELSE Zero

\* stock.py: filtered_df.groupby('Category')['GP%'].mean(), one row per category
gp_by_category(filtered_df) ==
    { [Category |-> c,
       GP |-> ColMean(FilterRows(filtered_df, LAMBDA row : row[Category] = c), GPpct)] :
      c \in Categories(filtered_df) }

\* gp_by_category[gp_by_category['GP%'] < 0]
negative_gp(filtered_df) == {g \in gp_by_category(filtered_df) : RLt(g.GP, Zero)}

\* what a page shows when a script run has shown nothing
NoView ==
    [kind |-> "none", filtered_df |-> EmptyFrame, total_sales |-> Zero,
     total_profit |-> Zero, gp |-> Zero, table |-> EmptyFrame, chart |-> {}]

\* one run of hilal.py or stock.py from "Load File" to the end, given what
\* load_data returned and the sidebar selection
hilal_script(pg, loaded, sel) ==
    IF loaded.exc # "none"
    THEN [msgs |-> loaded.msgs, exc |-> loaded.exc, view |-> NoView]
    ELSE IF IsEmpty(loaded.df)
    THEN [msgs |-> loaded.msgs \o <<"warning: No data loaded">>, exc |-> "none",
          view |-> NoView]
    ELSE
      LET filtered_df == ApplyFilters(loaded.df, sel)
          nomatch == IsEmpty(filtered_df)
          chart == IF pg = "stock" /\ ~nomatch THEN negative_gp(filtered_df) ELSE {}
      IN  [msgs |-> loaded.msgs
                    \o (IF nomatch THEN <<"info: No items match the selected filters">>
                        ELSE <<>>)
                    \o (IF pg = "stock" /\ ~nomatch /\ chart = {}
                        THEN <<"info: No categories have negative GP%">> ELSE <<>>),
           exc |-> "none",
           view |-> [kind |-> "filtered", filtered_df |-> filtered_df,
                     total_sales |-> ColSum(filtered_df, TotalSales),
                     total_profit |-> ColSum(filtered_df, TotalProfit),
                     gp |-> avg_gp(filtered_df),
                     table |-> IF nomatch THEN EmptyFrame ELSE filtered_df,
                     chart |-> chart]]


\* ------------------------------------------------------------------ variance.py

\* the characters of the model in code-point order (Python compares text by it)
CodePoints == <<" ", "#", "%", ",", "-", ".">> \o Digits \o UpperCase \o <<"_">> \o LowerCase

Ord(c) == CHOOSE i \in 1..Len(CodePoints) : CodePoints[i] = c

RECURSIVE StrLess(_, _)
StrLess(a, b) ==
    IF b = <<>> THEN FALSE
    ELSE IF a = <<>> THEN TRUE
    ELSE IF Head(a) # Head(b) THEN Ord(Head(a)) < Ord(Head(b))
    ELSE StrLess(Tail(a), Tail(b))

\* sorted(set of texts)
RECURSIVE Sorted(_)
Sorted(S) ==
    IF S = {} THEN <<>>
    ELSE LET m == CHOOSE x \in S : \A y \in S \ {x} : StrLess(x, y)
         IN  <<m>> \o Sorted(S \ {m})

\* df.columns = F(df.columns)
RenameCols(df, F(_)) ==
    [cols |-> [i \in 1..Len(df.cols) |-> F(df.cols[i])],
     rows |-> [j \in 1..Len(df.rows) |->
                 [h \in {F(df.cols[i]) : i \in 1..Len(df.cols)} |->
                     df.rows[j][df.cols[CHOOSE i \in 1..Len(df.cols) : F(df.cols[i]) = h]]]]]

\* columns.str.strip(), then the removal of the special characters
NormalizeHeader(col) == RemoveSpecial(Strip(col))

\* load_data(file_path) of variance.py
variance_load_data(f) ==
    IF f.status = "missing"
    THEN [df |-> EmptyFrame, msgs |-> <<"error: File not found">>]
    ELSE IF f.status # "ok"
    THEN [df |-> EmptyFrame, msgs |-> <<"error: Error reading file">>]
    ELSE [df |-> RenameCols(f.sheet, NormalizeHeader), msgs |-> <<>>]

\* re.search(r'(Total Sales|Total Profit)$', col, re.IGNORECASE)
IsMetricCol(col) ==
    \/ EndsWith(StrLower(col), StrLower(TotalSales))
    \/ EndsWith(StrLower(col), StrLower(TotalProfit))

RECURSIVE CoerceCols(_, _)
\* for col in metric_cols: df[col] = pd.to_numeric(df[col], errors='coerce').fillna(0)
CoerceCols(df, cols) ==
    IF cols = <<>> THEN df
    ELSE CoerceCols(SetCol(df, Head(cols), LAMBDA row : FillNa(ToNumeric(row[Head(cols)]), Zero)),
                    Tail(cols))

\* GuardedRatio without its guard: profit / sales whatever sales is
GuardedRatio_unguarded(profit, sales) == RDiv(profit, sales)

\* (profit / sales) if sales != 0 else 0
GuardedRatio(profit, sales) == IF sales # Zero THEN RDiv(profit, sales) ELSE Zero

\* steps 1 to 3 of process_and_aggregate_data on a table that has metric columns
variance_derive(df, metric_cols) ==
    LET d1 == CoerceCols(df, metric_cols)
        sales_cols == SelectSeq(metric_cols, LAMBDA col : Contains(col, TotalSales))
        profit_cols == SelectSeq(metric_cols, LAMBDA col : Contains(col, TotalProfit))
        d2 == SetCol(d1, TotalSales, LAMBDA row : RowSum(row, sales_cols))
        d3 == SetCol(d2, TotalProfit, LAMBDA row : RowSum(row, profit_cols))
    IN  SetCol(d3, GP, LAMBDA row : GuardedRatio(row[TotalProfit], row[TotalSales]))

\* variance_clean without the strip: a category of blanks is not ''
variance_clean_nostrip(df) ==
    FilterRows(SetCol(df, Category, LAMBDA row : Str(AsStr(row[Category]))),
               LAMBDA row : row[Category] # Str(<<>>))

\* step 4: df['Category'].astype(str).str.strip(), then the rows whose category is not ''
variance_clean(df) ==
    FilterRows(SetCol(df, Category, LAMBDA row : Str(Strip(AsStr(row[Category])))),
               LAMBDA row : row[Category] # Str(<<>>))

\* variance_aggregate with groupby's default treatment of a missing key applied to
\* the text 'nan': the rows without a category fall out of the aggregate
variance_aggregate_dropna(df_clean) ==
    LET keys == Sorted({c.s : c \in Categories(df_clean)} \ {<<"n","a","n">>})
        grp(key) == FilterRows(df_clean, LAMBDA row : row[Category] = Str(key))
        agg(key) == (Category :> Str(key))
                    @@ (Total_Sales :> ColSum(grp(key), TotalSales))
                    @@ (Total_Profit :> ColSum(grp(key), TotalProfit))
        withGP(r) == r @@ (GP :> GuardedRatio(r[Total_Profit], r[Total_Sales]))
    IN  [cols |-> <<Category, Total_Sales, Total_Profit, GP>>,
         rows |-> [i \in 1..Len(keys) |-> withGP(agg(keys[i]))]]

\* step 5: one row per category, in key order, with the summed totals and their ratio
variance_aggregate(df_clean) ==
    LET keys == Sorted({c.s : c \in Categories(df_clean)})
        grp(key) == FilterRows(df_clean, LAMBDA row : row[Category] = Str(key))
        agg(key) == (Category :> Str(key))
                    @@ (Total_Sales :> ColSum(grp(key), TotalSales))
                    @@ (Total_Profit :> ColSum(grp(key), TotalProfit))
        withGP(r) == r @@ (GP :> GuardedRatio(r[Total_Profit], r[Total_Sales]))
    IN  [cols |-> <<Category, Total_Sales, Total_Profit, GP>>,
         rows |-> [i \in 1..Len(keys) |-> withGP(agg(keys[i]))]]

\* what process_and_aggregate_data returns when it gives up
ProcessFailed(msg, df) ==
    [df_clean |-> EmptyFrame, df_category_agg |-> EmptyFrame, metric_cols |-> <<>>,
     msgs |-> <<msg>>, df |-> df]

\* process_and_aggregate_data(df): the three values returned, the elements written
\* and df as the function leaves it (it assigns to df's columns in place)
process_and_aggregate_data(df) ==
    LET metric_cols == SelectSeq(df.cols, IsMetricCol)
        derived == variance_derive(df, metric_cols)
        categorised == SetCol(derived, Category, LAMBDA row : Str(Strip(AsStr(row[Category]))))
        df_clean == variance_clean(derived)
    IN  IF metric_cols = <<>>
        THEN ProcessFailed("error: Could not find required metric columns", df)
        ELSE IF ~HasCol(derived, Category)
        THEN ProcessFailed("error: The 'Category' column is missing", derived)
        ELSE IF IsEmpty(df_clean)
        THEN ProcessFailed("error: No valid rows found after filtering out empty categories",
                           categorised)
        ELSE [df_clean |-> df_clean, df_category_agg |-> variance_aggregate(df_clean),
              metric_cols |-> metric_cols, msgs |-> <<>>, df |-> categorised]


\* ------------------------------------------------------------------ variance.py: the views

RECURSIVE Group3(_)
\* the ',' option of a format spec: a comma before every third digit from the right
Group3(ds) ==
    IF Len(ds) <= 3 THEN ds
    ELSE Group3(SubSeq(ds, 1, Len(ds) - 3)) \o <<",">> \o SubSeq(ds, Len(ds) - 2, Len(ds))

\* '{:.2f}' on a finite number, with grouping when comma is set
Fixed2(x, comma) ==
    LET h == RoundHalfEven(Abs(x.n) * 100, x.d)
        int == DigitsOf(h \div 100)
    IN  (IF x.n < 0 THEN <<"-">> ELSE <<>>)
        \o (IF comma THEN Group3(int) ELSE int)
        \o <<".", Digits[((h % 100) \div 10) + 1], Digits[(h % 10) + 1]>>

\* '{:.2%}'.format
FormatPct(x) == Str(Fixed2(RMul(x, Num(100)), FALSE) \o <<"%">>)

\* '{:,.2f}'.format
FormatAmount(x) == Str(Fixed2(x, TRUE))

None == [some |-> FALSE, v |-> <<>>]
Some(v) == [some |-> TRUE, v |-> v]

\* next((col for col in cols if P(col)), None)
FirstCol(cols, P(_)) ==
    LET hit == SelectSeq(cols, P)
    IN  IF hit = <<>> THEN None ELSE Some(Head(hit))

\* re.search(r'items|item name', col, re.IGNORECASE) and 'code' not in col.lower()
IsNameCol(col) ==
    /\ \/ Contains(StrLower(col), <<"i","t","e","m","s">>)
       \/ Contains(StrLower(col), <<"i","t","e","m"," ","n","a","m","e">>)
    /\ ~Contains(StrLower(col), <<"c","o","d","e">>)

\* re.search(r'item code|barcode', col, re.IGNORECASE)
IsCodeCol(col) ==
    \/ Contains(StrLower(col), <<"i","t","e","m"," ","c","o","d","e">>)
    \/ Contains(StrLower(col), <<"b","a","r","c","o","d","e">>)

\* df[col].astype(str).str.lower().str.contains(search, na=False), for a search
\* text of letters and digits (str.contains reads it as a regular expression)
TextMatch(row, col, search) == Contains(StrLower(AsStr(row[col])), search)

\* df_data[df_data['Category'] == category_name]
ItemFilterCategory(df, category_name) ==
    FilterRows(df, LAMBDA row : row[Category] = Str(category_name))

\* the name search: applied when a search text is given and a name column is found
ItemFilterName(df, search_name) ==
    LET name_col == FirstCol(df.cols, IsNameCol)
    IN  IF search_name # <<>> /\ name_col.some
        THEN FilterRows(df, LAMBDA row : TextMatch(row, name_col.v, search_name))
        ELSE df

\* the code search: applied when a search text is given and a code column is found
ItemFilterCode(df, search_code) ==
    LET code_col == FirstCol(df.cols, IsCodeCol)
    IN  IF search_code # <<>> /\ code_col.some
        THEN FilterRows(df, LAMBDA row : TextMatch(row, code_col.v, search_code))
        ELSE df

\* list(pd.unique(cols)): the first occurrence of every entry, in order
RECURSIVE Unique(_)
Unique(s) ==
    IF s = <<>> THEN <<>>
    ELSE LET init == Unique(SubSeq(s, 1, Len(s) - 1))
             last == s[Len(s)]
         IN  IF last \in SeqRange(init) THEN init ELSE Append(init, last)

\* df[cols]
SelectCols(df, cols) ==
    [cols |-> cols,
     rows |-> [i \in 1..Len(df.rows) |-> [h \in SeqRange(cols) |-> df.rows[i][h]]]]

\* create_item_monthly_chart: the monthly totals of the category's items
create_item_monthly_chart(df_item, monthly_metrics) ==
    { [col |-> monthly_metrics[i], total |-> ColSum(df_item, monthly_metrics[i])] :
      i \in {j \in 1..Len(monthly_metrics) :
                \/ Contains(monthly_metrics[j], TotalSales)
                \/ Contains(monthly_metrics[j], TotalProfit)} }

\* create_category_chart: one pair of bars per category
create_category_chart(df_agg) ==
    { [Category |-> df_agg.rows[i][Category], Total_Sales |-> df_agg.rows[i][Total_Sales],
       Total_Profit |-> df_agg.rows[i][Total_Profit]] : i \in 1..Len(df_agg.rows) }

\* render_category_view formatting df_category_agg itself instead of a copy
render_category_view_inplace(df_category_agg) ==
    LET renamed == RenameCols(df_category_agg,
                      LAMBDA c : IF c = Total_Sales THEN TotalSales
                                 ELSE IF c = Total_Profit THEN TotalProfit ELSE c)
        d1 == SetCol(renamed, GP, LAMBDA row : FormatPct(row[GP]))
        d2 == SetCol(d1, TotalSales, LAMBDA row : FormatAmount(row[TotalSales]))
        df_display == SetCol(d2, TotalProfit, LAMBDA row : FormatAmount(row[TotalProfit]))
    IN  [msgs |-> <<"info: Use the Filter by Category dropdown">>,
         view |-> [kind |-> "category", filtered_df |-> df_category_agg,
                   total_sales |-> ColSum(df_category_agg, Total_Sales),
                   total_profit |-> ColSum(df_category_agg, Total_Profit),
                   gp |-> GuardedRatio(ColSum(df_category_agg, Total_Profit),
                                       ColSum(df_category_agg, Total_Sales)),
                   table |-> df_display,
                   chart |-> create_category_chart(df_category_agg)],
         df_category_agg |-> df_display]

\* render_category_view(df_category_agg): the elements written, the view, and
\* df_category_agg as the function leaves it (df_display is a copy)
render_category_view(df_category_agg) ==
    LET total_sales == ColSum(df_category_agg, Total_Sales)
        total_profit == ColSum(df_category_agg, Total_Profit)
        total_gp == GuardedRatio(total_profit, total_sales)
        renamed == RenameCols(df_category_agg,
                      LAMBDA c : IF c = Total_Sales THEN TotalSales
                                 ELSE IF c = Total_Profit THEN TotalProfit ELSE c)
        d1 == SetCol(renamed, GP, LAMBDA row : FormatPct(row[GP]))
        d2 == SetCol(d1, TotalSales, LAMBDA row : FormatAmount(row[TotalSales]))
        df_display == SetCol(d2, TotalProfit, LAMBDA row : FormatAmount(row[TotalProfit]))
    IN  [msgs |-> <<"info: Use the Filter by Category dropdown">>,
         view |-> [kind |-> "category", filtered_df |-> df_category_agg,
                   total_sales |-> total_sales, total_profit |-> total_profit,
                   gp |-> total_gp, table |-> df_display,
                   chart |-> create_category_chart(df_category_agg)],
         df_category_agg |-> df_category_agg]

\* render_item_view(df_data, category_name, search_name, search_code), reading
\* st.session_state.monthly_metrics: the elements written, the view, and df_data
\* as the function leaves it (df_category_items and df_table are copies)
render_item_view(df_data, monthly_metrics, category_name, search_name, search_code) ==
    LET df_category_items == ItemFilterCategory(df_data, category_name)
        name_col == FirstCol(df_category_items.cols, IsNameCol)
        code_col == FirstCol(df_category_items.cols, IsCodeCol)
        df_filtered == ItemFilterCode(ItemFilterName(df_category_items, search_name),
                                      search_code)
        display_cols == (IF code_col.some THEN <<code_col.v>> ELSE <<>>)
                        \o (IF name_col.some THEN <<name_col.v>> ELSE <<>>)
                        \o <<TotalSales, TotalProfit, GP>> \o monthly_metrics
        final_cols == Unique(SelectSeq(display_cols, LAMBDA c : HasCol(df_filtered, c)))
        df_table == SetCol(SelectCols(df_filtered, final_cols), GP,
                           LAMBDA row : FormatPct(row[GP]))
    IN  [msgs |-> (IF search_name # <<>> /\ ~name_col.some
                   THEN <<"warning: Could not find a name column">> ELSE <<>>)
                  \o (IF search_code # <<>> /\ ~code_col.some
                      THEN <<"warning: Could not find a code column">> ELSE <<>>)
                  \o <<"info: Showing n of m items in this category">>,
         view |-> [kind |-> "item", filtered_df |-> df_filtered,
                   total_sales |-> Zero, total_profit |-> Zero, gp |-> Zero,
                   table |-> df_table,
                   chart |-> create_item_monthly_chart(df_category_items, monthly_metrics)],
         df_data |-> df_data]


\* ------------------------------------------------------------------ variance.py: main

NoFrame == [some |-> FALSE, v |-> EmptyFrame]

\* st.session_state as the top of the script initialises it
InitSession ==
    [df_data |-> NoFrame, df_category_agg |-> NoFrame, monthly_metrics |-> <<>>,
     selected_category |-> AllCategories]

\* main_load without the test "if not df_data.empty": whatever the processing
\* returned is stored
main_load_unchecked(ss, loaded) ==
    LET df_raw == loaded.df
        r == process_and_aggregate_data(df_raw)
    IN  IF ss.df_data.some THEN [ss |-> ss, msgs |-> <<>>, df_raw |-> EmptyFrame]
        ELSE IF IsEmpty(df_raw) THEN [ss |-> ss, msgs |-> loaded.msgs, df_raw |-> df_raw]
        ELSE [ss |-> [df_data |-> Some(r.df_clean),
                      df_category_agg |-> Some(r.df_category_agg),
                      monthly_metrics |-> r.metric_cols,
                      selected_category |-> AllCategories],
              msgs |-> loaded.msgs \o r.msgs
                       \o <<"success: Data loaded and processed successfully">>,
              df_raw |-> r.df]

\* the first half of main(): the load and the processing, run only while
\* session_state.df_data is None; loaded is what load_data returns, and df_raw in
\* the result is the table load_data returned as the processing leaves it
main_load(ss, loaded) ==
    LET df_raw == loaded.df
        r == process_and_aggregate_data(df_raw)
    IN  IF ss.df_data.some THEN [ss |-> ss, msgs |-> <<>>, df_raw |-> EmptyFrame]
        ELSE IF IsEmpty(df_raw) THEN [ss |-> ss, msgs |-> loaded.msgs, df_raw |-> df_raw]
        ELSE IF ~IsEmpty(r.df_clean)
        THEN [ss |-> [df_data |-> Some(r.df_clean),
                      df_category_agg |-> Some(r.df_category_agg),
                      monthly_metrics |-> r.metric_cols,
                      selected_category |-> AllCategories],
              msgs |-> loaded.msgs \o r.msgs
                       \o <<"success: Data loaded and processed successfully">>,
              df_raw |-> r.df]
        ELSE [ss |-> ss,
              msgs |-> loaded.msgs \o r.msgs \o <<"error: Failed to process data">>,
              df_raw |-> r.df]

\* the options of the sidebar's category select box
SidebarCategories(ss) ==
    {AllCategories} \cup {c.s : c \in Categories(ss.df_category_agg.v)}

\* the second half of main(): the view for the sidebar selection, and the
\* session state with its tables as the render function, which is handed the
\* stored objects, leaves them
\* what main() leaves after render_category_view returned r
CategoryShown(ss, r) ==
    [msgs |-> r.msgs, view |-> r.view,
     ss |-> [ss EXCEPT !.df_category_agg = Some(r.df_category_agg)]]

\* what main() leaves after render_item_view returned r
ItemShown(ss, r) ==
    [msgs |-> r.msgs, view |-> r.view, ss |-> [ss EXCEPT !.df_data = Some(r.df_data)]]

main_view(ss, sel) ==
    IF ss.df_data.some
    THEN IF sel.category = AllCategories
         THEN CategoryShown(ss, render_category_view(ss.df_category_agg.v))
         ELSE ItemShown(ss, render_item_view(ss.df_data.v, ss.monthly_metrics,
                                             sel.category, StrLower(sel.search_name),
                                             StrLower(sel.search_code)))
    ELSE [msgs |-> <<"markdown: Please ensure the file is present">>, view |-> NoView,
          ss |-> ss]

\* ------------------------------------------------------------------ the pages as a state machine

VARIABLES
    page,      \* the script this session runs: "hilal", "stock" or "variance"
    file,      \* what the script's file path holds
    cache,     \* st.cache_data's entry for load_data(file_path)
    session,   \* st.session_state (variance.py)
    sel,       \* the sidebar widgets' values of the last run
    out        \* what the last run held and showed: df is the table load_data
               \* handed to the run, df_left that table as the run leaves it

vars == <<page, file, cache, session, sel, out>>

Pages == {"hilal", "stock", "variance"}

NoLoad == [df |-> EmptyFrame, msgs |-> <<>>]

\* the widgets' values before the user touches them
DefaultSel ==
    [category |-> Str(All), exclude |-> {}, gp |-> "All",
     search_name |-> <<>>, search_code |-> <<>>]

VarianceDefaultSel ==
    [category |-> AllCategories, exclude |-> {}, gp |-> "All",
     search_name |-> <<>>, search_code |-> <<>>]

\* the texts typed into the two search boxes
SearchNames == {<<>>, <<"T","e">>, <<"n","a">>}
SearchCodes == {<<>>, <<"A">>}

Init ==
    /\ page \in Pages
    /\ file \in Files
    /\ cache = [hit |-> FALSE, val |-> NoLoad]
    /\ session = InitSession
    /\ sel = IF page = "variance" THEN VarianceDefaultSel ELSE DefaultSel
    /\ out = [ran |-> FALSE, df |-> EmptyFrame, df_left |-> EmptyFrame, msgs |-> <<>>,
              exc |-> "none", view |-> NoView]

\* the sidebar of hilal.py and stock.py is drawn only when the run held a table
SidebarShown == out.ran /\ out.exc = "none" /\ ~IsEmpty(out.df)

\* the widget values a run of hilal.py or stock.py may see: the defaults on the
\* first run; afterwards what one interaction with the sidebar leaves (an entry of
\* "Select Category" picked, a category added to or removed from "Exclude
\* Categories", an entry of "Select GP% Range" picked); the values as they are
\* when the page is reloaded
HilalChoices ==
    IF ~out.ran THEN {DefaultSel}
    ELSE IF ~SidebarShown THEN {sel}
    ELSE {[sel EXCEPT !.category = c] : c \in {Str(All)} \cup Categories(out.df)}
         \cup {[sel EXCEPT !.exclude = IF c \in sel.exclude THEN sel.exclude \ {c}
                                       ELSE sel.exclude \cup {c}] :
               c \in Categories(out.df)}
         \cup {[sel EXCEPT !.gp = g] : g \in gp_options}

\* HilalScriptRun with load_data not decorated by st.cache_data: every run reads
\* the file and nothing is kept
HilalScriptRun_uncached(s) ==
    LET loaded == hilal_load_data(file)
    IN  /\ cache' = cache
        /\ sel' = s
        /\ out' = [ran |-> TRUE, df |-> loaded.df, df_left |-> loaded.df]
                   @@ hilal_script(page, loaded, s)
        /\ UNCHANGED <<page, file, session>>

\* one run of hilal.py or stock.py, top to bottom, with the widgets at s; the
\* filters work on filtered_df = df.copy(), so df is left as load_data returned it
HilalScriptRun(s) ==
    LET result == hilal_load_data(file)
        loaded == IF cache.hit THEN cache.val ELSE result
    IN  /\ cache' = IF cache.hit \/ result.exc # "none" THEN cache
                    ELSE [hit |-> TRUE, val |-> result]
        /\ sel' = s
        /\ out' = [ran |-> TRUE, df |-> loaded.df, df_left |-> loaded.df]
                   @@ hilal_script(page, loaded, s)
        /\ UNCHANGED <<page, file, session>>

\* a run of hilal.py: the first one, or the rerun an interaction triggers
HilalRun == page = "hilal" /\ \E s \in HilalChoices : HilalScriptRun(s)

\* a run of stock.py
StockRun == page = "stock" /\ \E s \in HilalChoices : HilalScriptRun(s)

\* the widget values a run of variance.py may see: the defaults on the first run
\* and while no sidebar is drawn; afterwards what one interaction leaves (an entry
\* of "Filter by Category" picked, a text typed into one of the two search boxes)
VarianceChoices ==
    IF ~out.ran \/ ~session.df_data.some THEN {VarianceDefaultSel}
    ELSE {[sel EXCEPT !.category = c] : c \in SidebarCategories(session)}
         \cup {[sel EXCEPT !.search_name = n] : n \in SearchNames}
         \cup {[sel EXCEPT !.search_code = k] : k \in SearchCodes}

\* main() after the load: the view, and what the run leaves behind
main_show(ss, msgs, df_raw, df_left, s) ==
    \E v \in {main_view(ss, s)} :
        /\ session' = v.ss
        /\ sel' = s
        /\ out' = [ran |-> TRUE, df |-> df_raw, df_left |-> df_left,
                   msgs |-> msgs \o v.msgs, exc |-> "none", view |-> v.view]

\* a run of variance.py's main(): load_data is called, through st.cache_data,
\* only while session_state.df_data is None
VarianceRun ==
    /\ page = "variance"
    /\ \E s \in VarianceChoices :
         IF session.df_data.some
         THEN main_show(session, <<>>, EmptyFrame, EmptyFrame, s) /\ UNCHANGED cache
         ELSE LET loaded == IF cache.hit THEN cache.val ELSE variance_load_data(file)
                  l == main_load(session, loaded)
              IN  /\ cache' = [hit |-> TRUE, val |-> loaded]
                  /\ main_show(l.ss, l.msgs, loaded.df, l.df_raw, s)
    /\ UNCHANGED <<page, file>>

Next == HilalRun \/ StockRun \/ VarianceRun

Spec == Init /\ [][Next]_vars


\* ------------------------------------------------------------------ properties

\* the item table a run holds after metric derivation: df of hilal.py and
\* stock.py, session_state.df_data of variance.py
ItemTable == IF page = "variance" THEN session.df_data.v ELSE out.df

\* the name of the ratio column of the item table
RatioCol == IF page = "variance" THEN GP ELSE GPpct

\* the headers of the sheet as the page's load_data hands them on
LoadedCols ==
    IF page = "variance"
    THEN [i \in 1..Len(file.sheet.cols) |-> NormalizeHeader(file.sheet.cols[i])]
    ELSE file.sheet.cols

\* the name rule that recognises a period column of the given kind: a substring
\* test in hilal.py and stock.py, a case-blind suffix test in variance.py
Recognised(col, kind) ==
    IF page = "variance" THEN EndsWith(StrLower(col), StrLower(kind))
    ELSE Contains(col, kind)

RecognisedCols(kind) == SelectSeq(LoadedCols, LAMBDA col : Recognised(col, kind))

\* C1: after metric derivation, every row's Total Sales is the sum of its cells
\* over exactly the recognised period sales columns and its Total Profit the sum
\* over exactly the recognised period profit columns (a missing cell counting as
\* 0), so that every recognised column contributes to exactly one total.
C1_TotalsSumRecognisedColumns ==
    \A i \in 1..Len(ItemTable.rows) :
       LET row == ItemTable.rows[i]
       IN  /\ row[TotalSales] = RowSum(row, RecognisedCols(TotalSales))
           /\ row[TotalProfit] = RowSum(row, RecognisedCols(TotalProfit))

\* a finite number, neither NaN nor an infinity
Finite(c) == c.k = "num"

\* C2: in every table of item rows, category rows and in the company total, a
\* row or group whose Total Sales is 0 has ratio exactly 0, and no ratio that is
\* filtered, aggregated or shown is NaN or infinite.
C2_ZeroGuard ==
    /\ \A i \in 1..Len(ItemTable.rows) :
          LET row == ItemTable.rows[i]
          IN  /\ Finite(row[RatioCol])
              /\ row[TotalSales] = Zero => row[RatioCol] = Zero
    /\ page # "variance" =>
          /\ \A i \in 1..Len(out.view.filtered_df.rows) :
                Finite(out.view.filtered_df.rows[i][GPpct])
          /\ Finite(out.view.gp)
          /\ \A g \in out.view.chart : Finite(g.GP)
    /\ page = "variance" /\ session.df_category_agg.some =>
          \A i \in 1..Len(session.df_category_agg.v.rows) :
             LET row == session.df_category_agg.v.rows[i]
             IN  /\ Finite(row[GP])
                 /\ row[Total_Sales] = Zero => row[GP] = Zero
    /\ page = "variance" /\ out.view.kind = "category" =>
          /\ Finite(out.view.gp)
          /\ out.view.total_sales = Zero => out.view.gp = Zero

\* C2 witness: variance.py shows the category view of a table whose company
\* Total Sales is 0 while its Total Profit is not, so that an item row, a category
\* row and the company total all divide by zero unless guarded.
C2_Witness ==
    /\ page = "variance" /\ out.view.kind = "category"
    /\ out.view.total_sales = Zero /\ out.view.total_profit # Zero
    /\ \E i \in 1..Len(ItemTable.rows) :
          ItemTable.rows[i][TotalSales] = Zero /\ ItemTable.rows[i][TotalProfit] # Zero

\* summed profit over summed sales of the rows of df, as a percentage with two
\* decimals (the scale of the GP% column)
SummedGPpct(df) ==
    Round2(RMul(RDiv(ColSum(df, TotalProfit), ColSum(df, TotalSales)), Num(100)))

\* C3: every group-level or grand-total ratio a page computes is the summed Total
\* Profit over the summed Total Sales of the group's rows: the "Average GP%"
\* headline of hilal.py and stock.py, the per-category GP% of stock.py's chart,
\* the per-category GP and the company GP margin of variance.py (groups whose
\* summed Total Sales is 0 are left out).
C3_GroupRatioFromSummedTotals ==
    /\ page # "variance" /\ out.view.kind = "filtered"
         /\ ColSum(out.view.filtered_df, TotalSales) # Zero
       => out.view.gp = SummedGPpct(out.view.filtered_df)
    /\ page = "stock" =>
          \A g \in out.view.chart :
             LET grp == FilterRows(out.view.filtered_df,
                                   LAMBDA row : row[Category] = g.Category)
             IN  ColSum(grp, TotalSales) # Zero => Round2(g.GP) = SummedGPpct(grp)
    /\ page = "variance" /\ out.view.kind = "category" /\ out.view.total_sales # Zero
       => out.view.gp = RDiv(out.view.total_profit, out.view.total_sales)

\* the rows of df whose category is c
RowsOfCategory(df, c) == {i \in 1..Len(df.rows) : df.rows[i][Category] = c}

\* the sum of column c over the rows of df with index in I
RECURSIVE SumOver(_, _, _)
SumOver(df, c, I) ==
    IF I = {} THEN Zero
    ELSE LET i == CHOOSE j \in I : TRUE
         IN  RAdd(df.rows[i][c], SumOver(df, c, I \ {i}))

\* C4: in variance.py the category rows' Total_Sales (Total_Profit) add up to the
\* company total the category view shows and to the item rows' Total Sales (Total
\* Profit); every kept item row is counted in exactly one category row; a category
\* row carries the sums of its items and, when its Total_Sales is not 0, GP =
\* Total_Profit / Total_Sales.
C4_AggregateCorrectness ==
    page = "variance" /\ session.df_data.some =>
       LET items == session.df_data.v
           agg == session.df_category_agg.v
           all == 1..Len(items.rows)
       IN  /\ SumOver(agg, Total_Sales, 1..Len(agg.rows)) = SumOver(items, TotalSales, all)
           /\ SumOver(agg, Total_Profit, 1..Len(agg.rows)) = SumOver(items, TotalProfit, all)
           /\ out.view.kind = "category" =>
                 /\ out.view.total_sales = SumOver(items, TotalSales, all)
                 /\ out.view.total_profit = SumOver(items, TotalProfit, all)
           /\ \A i \in all :
                 Cardinality(RowsOfCategory(agg, items.rows[i][Category])) = 1
           /\ \A j \in 1..Len(agg.rows) :
                 LET row == agg.rows[j]
                     mine == RowsOfCategory(items, row[Category])
                 IN  /\ mine # {}
                     /\ row[Total_Sales] = SumOver(items, TotalSales, mine)
                     /\ row[Total_Profit] = SumOver(items, TotalProfit, mine)
                     /\ row[Total_Sales] # Zero =>
                           RMul(row[GP], row[Total_Sales]) = row[Total_Profit]

\* C4 witness: the category view over two item rows that fall into one category
\* (" D" and "D" after stripping) with non-zero sales.
C4_Witness ==
    /\ page = "variance" /\ out.view.kind = "category"
    /\ Len(session.df_data.v.rows) = 2
    /\ Len(session.df_category_agg.v.rows) = 1
    /\ out.view.total_sales # Zero


\* the five GP% ranges and their bounds in percent: lo <= v < hi, a missing bound
\* leaving that side open
Buckets == gp_options \ {"All"}

BucketBounds ==
    [b \in Buckets |->
        CASE b = "<5%" -> [haslo |-> FALSE, lo |-> 0, hashi |-> TRUE, hi |-> 5]
          [] b = "5-10%" -> [haslo |-> TRUE, lo |-> 5, hashi |-> TRUE, hi |-> 10]
          [] b = "10-20%" -> [haslo |-> TRUE, lo |-> 10, hashi |-> TRUE, hi |-> 20]
          [] b = "20-30%" -> [haslo |-> TRUE, lo |-> 20, hashi |-> TRUE, hi |-> 30]
          [] b = "30%+" -> [haslo |-> TRUE, lo |-> 30, hashi |-> FALSE, hi |-> 0]]

InInterval(b, v) ==
    /\ BucketBounds[b].haslo => ~RLt(v, Num(BucketBounds[b].lo))
    /\ BucketBounds[b].hashi => RLt(v, Num(BucketBounds[b].hi))

\* profit / sales as a percentage, 0 when sales is 0
RatioPct(row) ==
    IF row[TotalSales] = Zero THEN Zero
    ELSE RMul(RDiv(row[TotalProfit], row[TotalSales]), Num(100))

\* the value of the GP% column: the ratio as a percentage, rounded to two decimals
RoundedRatioPct(row) == Round2(RatioPct(row))

\* the rows that pass the category and the exclusion selection
PassesCategorySelection(row) ==
    /\ sel.category # Str(All) => row[Category] = sel.category
    /\ row[Category] \notin sel.exclude

\* the bucket statement over a measure V of a row: the five ranges partition the
\* rows of the loaded table, a range selects exactly the rows whose measure lies
\* in its interval, 'All' selects every row, and the run's filtered table is what
\* the selected range leaves of the rows that pass the category selection
BucketStatement(V(_)) ==
    page # "variance" /\ out.view.kind = "filtered" =>
       /\ \A i \in 1..Len(out.df.rows) :
             Cardinality({b \in Buckets :
                            out.df.rows[i] \in SeqRange(FilterGP(out.df, b).rows)}) = 1
       /\ \A b \in Buckets :
             FilterGP(out.df, b).rows
                = SelectSeq(out.df.rows, LAMBDA row : InInterval(b, V(row)))
       /\ FilterGP(out.df, "All") = out.df
       /\ out.view.filtered_df.rows
             = SelectSeq(out.df.rows,
                         LAMBDA row : /\ PassesCategorySelection(row)
                                      /\ sel.gp # "All" => InInterval(sel.gp, V(row)))

\* C5 as stated: the GP% ranges partition the rows, and a range selects a row iff
\* the row's ratio profit / sales, as a percentage, lies in the range's half-open
\* interval (lower bound inclusive, the top range open above).
C5_BucketByRatio == BucketStatement(RatioPct)

\* C5 as amended: the GP% ranges partition the rows, and a range selects a row iff
\* the row's GP% value, which is profit / sales as a percentage rounded to two
\* decimals (0 when Total Sales is 0), lies in the range's half-open interval;
\* 'All' selects every row.
C5_BucketByRoundedRatio == BucketStatement(RoundedRatioPct)

\* C5 witness: the range 5-10% is selected and keeps a row whose GP% is exactly 5
\* while its ratio is below 5%.
C5_Witness ==
    /\ page # "variance" /\ sel.gp = "5-10%"
    /\ \E i \in 1..Len(out.view.filtered_df.rows) :
          /\ out.view.filtered_df.rows[i][GPpct] = Num(5)
          /\ RLt(RatioPct(out.view.filtered_df.rows[i]), Num(5))

\* the three filters of hilal.py and stock.py, by number
HilalFilter(k, df) ==
    CASE k = 1 -> FilterCategory(df, sel.category)
      [] k = 2 -> FilterExclude(df, sel.exclude)
      [] k = 3 -> FilterGP(df, sel.gp)

\* the three filters of render_item_view, by number
ItemFilter(k, df) ==
    CASE k = 1 -> ItemFilterCategory(df, sel.category)
      [] k = 2 -> ItemFilterName(df, StrLower(sel.search_name))
      [] k = 3 -> ItemFilterCode(df, StrLower(sel.search_code))

\* the conjunction of the active predicates of hilal.py and stock.py
HilalPasses(row) ==
    /\ PassesCategorySelection(row)
    /\ sel.gp # "All" => InBucket(sel.gp, row[GPpct])

\* the conjunction of the active predicates of render_item_view: a search is
\* active when its text is not empty and the table has a column to search
ItemPasses(df, row) ==
    LET name_col == FirstCol(df.cols, IsNameCol)
        code_col == FirstCol(df.cols, IsCodeCol)
    IN  /\ row[Category] = Str(sel.category)
        /\ sel.search_name # <<>> /\ name_col.some
              => TextMatch(row, name_col.v, StrLower(sel.search_name))
        /\ sel.search_code # <<>> /\ code_col.some
              => TextMatch(row, code_col.v, StrLower(sel.search_code))

SameColumns(a, b, cols) ==
    /\ Len(a.rows) = Len(b.rows)
    /\ \A i \in 1..Len(a.rows) : \A c \in cols :
          c \in DOMAIN a.rows[i] /\ a.rows[i][c] = b.rows[i][c]

\* C7: the metric derivation applied to the table it produced gives the same Total
\* Sales, Total Profit and GP columns again.
C7_DeriveIdempotent ==
    /\ page # "variance" /\ ~IsEmpty(out.df) =>
          SameColumns(hilal_derive(out.df), out.df, {TotalSales, TotalProfit, GPpct})
    /\ page = "variance" /\ session.df_data.some =>
          SameColumns(process_and_aggregate_data(session.df_data.v).df_clean,
                      session.df_data.v, {TotalSales, TotalProfit, GP})


\* what a run wrote
Wrote(m) == m \in SeqRange(out.msgs)

\* the elements that report a file that is missing or cannot be read
LoadFailureMsgs ==
    {"error: Error loading file", "error: File not found", "error: Error reading file"}

\* the elements that report a sheet of the wrong structure
StructuralMsgs ==
    {"error: Could not find required metric columns",
     "error: The 'Category' column is missing",
     "error: No valid rows found after filtering out empty categories"}

\* the sheet as the page's load_data hands it on
LoadedSheet == IF page = "variance" THEN variance_load_data(file).df ELSE file.sheet

\* a readable sheet with rows and a Category column, none of whose columns the
\* page's name rule recognises as a period sales or profit column
ZeroMatched ==
    /\ out.ran /\ file.status = "ok" /\ Len(file.sheet.rows) > 0
    /\ Category \in SeqRange(LoadedCols)
    /\ RecognisedCols(TotalSales) = <<>> /\ RecognisedCols(TotalProfit) = <<>>

\* every row of the item table has totals 0 and ratio 0
AllTotalsZero ==
    \A i \in 1..Len(ItemTable.rows) :
       /\ ItemTable.rows[i][TotalSales] = Zero
       /\ ItemTable.rows[i][TotalProfit] = Zero
       /\ ItemTable.rows[i][RatioCol] = Zero

\* C8 as stated: on a table with no recognised period column the metric
\* derivation of every page returns the table's rows with Total Sales 0, Total
\* Profit 0 and ratio 0, and reports no error.
C8_ZeroMatchedTolerated ==
    ZeroMatched =>
       /\ out.exc = "none"
       /\ SeqRange(out.msgs) \cap (LoadFailureMsgs \cup StructuralMsgs) = {}
       /\ Len(ItemTable.rows) = Len(file.sheet.rows)
       /\ AllTotalsZero

\* C8 as amended: on a table with no recognised period column, load_data of
\* hilal.py and stock.py returns the table's rows with Total Sales 0, Total Profit
\* 0 and GP% 0 and reports no error, while process_and_aggregate_data of
\* variance.py reports that the metric columns are missing and returns empty
\* tables, so that no view is drawn.
C8_ZeroMatchedByPage ==
    ZeroMatched =>
       /\ page # "variance" => C8_ZeroMatchedTolerated
       /\ page = "variance" =>
             /\ ~session.df_data.some /\ ~session.df_category_agg.some
             /\ session.monthly_metrics = <<>>
             /\ Wrote("error: Could not find required metric columns")
             /\ out.view.kind = "none"

\* C8 witness: hilal.py has loaded a sheet with rows, a Category column and no
\* period column.
C8_Witness == page = "hilal" /\ ZeroMatched /\ ~IsEmpty(out.df)

\* the columns of the loaded sheet that the derivation neither fills nor coerces
PlainCols == {c \in SeqRange(LoadedCols) : c # Category /\ ~IsMetricCol(c)}

\* rows is raw, row by row and in order, on the plain columns
SameRows(rows, raw) ==
    /\ Len(rows) = Len(raw)
    /\ \A i \in 1..Len(rows) : \A c \in PlainCols : rows[i][c] = raw[i][c]

\* the metric derivation has returned an item table
Derived ==
    /\ out.ran /\ file.status = "ok"
    /\ IF page = "variance" THEN session.df_data.some ELSE out.exc = "none"

\* C9 as stated: the item table the metric derivation returns holds exactly the
\* input's rows, one to one, with only the derived columns added.
C9_NoRowsDropped ==
    Derived =>
       /\ SameRows(ItemTable.rows, LoadedSheet.rows)
       /\ ItemTable.cols = LoadedCols \o <<TotalSales, TotalProfit, RatioCol>>

\* the category of a raw row as text, stripped
StrippedCategory(row) == Strip(AsStr(row[Category]))

\* C9 as amended: load_data of hilal.py and stock.py returns exactly the input's
\* rows, one to one and in order, with only Total Sales, Total Profit and GP%
\* added; df_clean of variance.py holds, in order, exactly the input rows whose
\* category, as text and stripped, is not empty, with Total Sales, Total Profit
\* and GP added: it drops the rows with a blank category.
C9_RowsKeptByPage ==
    Derived =>
       /\ page # "variance" => C9_NoRowsDropped
       /\ page = "variance" =>
             /\ SameRows(ItemTable.rows,
                         SelectSeq(LoadedSheet.rows,
                                   LAMBDA row : StrippedCategory(row) # <<>>))
             /\ ItemTable.cols = LoadedCols \o <<TotalSales, TotalProfit, GP>>

\* C9 witness: variance.py holds an item table with fewer rows than the sheet.
C9_Witness ==
    /\ page = "variance" /\ Derived
    /\ Len(ItemTable.rows) < Len(file.sheet.rows)

\* C10: when the file is read but the sheet has no Category column, the run ends
\* without an exception, reports a structural error and no load failure, and draws
\* no table and no metrics.
C10_MissingCategoryReported ==
    out.ran /\ file.status = "ok" /\ Category \notin SeqRange(LoadedCols) =>
       /\ out.exc = "none"
       /\ SeqRange(out.msgs) \cap StructuralMsgs # {}
       /\ SeqRange(out.msgs) \cap LoadFailureMsgs = {}
       /\ out.view.kind = "none"


\* the run held a table with rows and the selected filters left none of them
NarrowedToZero ==
    /\ out.ran /\ out.view.kind \in {"filtered", "item"}
    /\ IsEmpty(out.view.filtered_df)

\* the element by which the page says that nothing matches
NoMatchReported ==
    /\ IsEmpty(out.view.table)
    /\ IF page = "variance" THEN Wrote("info: Showing n of m items in this category")
       ELSE Wrote("info: No items match the selected filters")

\* every total the view shows is 0: the three metrics of hilal.py and stock.py,
\* the points of the trend chart of variance.py's item view
ZeroTotalsShown ==
    /\ out.view.total_sales = Zero /\ out.view.total_profit = Zero /\ out.view.gp = Zero
    /\ page = "variance" => \A pt \in out.view.chart : pt.total = Zero

\* the elements written with st.error
ErrorMsgs == LoadFailureMsgs \cup StructuralMsgs \cup {"error: Failed to process data"}

\* what a page shows when load_data has failed: its st.error element and, in
\* hilal.py and stock.py, the warning of the df.empty check
LoadFailureShown ==
    \/ SeqRange(out.msgs) \cap LoadFailureMsgs # {}
    \/ page # "variance" /\ Wrote("warning: No data loaded")

\* the run ended without an exception and wrote nothing with st.error
NoErrorOutcome == out.exc = "none" /\ SeqRange(out.msgs) \cap ErrorMsgs = {}

\* C11 as stated: when the filters leave no row of a loaded table, the page
\* reports that nothing matches, shows zero totals and reports neither the load
\* failure nor another error; and the load-failure outcome is shown only when the
\* load has failed.
C11_NoMatchesIsNotFailure ==
    /\ NarrowedToZero =>
          NoMatchReported /\ ZeroTotalsShown /\ NoErrorOutcome /\ ~LoadFailureShown
    /\ out.ran /\ LoadFailureShown => file.status # "ok"

\* C11 as amended: when the filters leave no row of a loaded table, hilal.py and
\* stock.py report 'No items match the selected filters.' with Total Sales, Total
\* Profit and Average GP% all 0, and variance.py's item view reports 'Showing 0 of
\* m items' with an empty table while its trend chart keeps the monthly totals of
\* the whole category; no page then writes an error or the load-failure outcome.
\* The st.error element of load_data is written only when the load has failed,
\* while the warning 'No data loaded' of hilal.py and stock.py is written exactly
\* when the table load_data returned has no rows, a readable sheet without rows
\* included.
C11_NoMatchesByPage ==
    /\ NarrowedToZero =>
          /\ NoMatchReported /\ NoErrorOutcome /\ ~LoadFailureShown
          /\ page # "variance" => ZeroTotalsShown
          /\ page = "variance" =>
                out.view.chart =
                   create_item_monthly_chart(
                       ItemFilterCategory(session.df_data.v, sel.category),
                       session.monthly_metrics)
    /\ out.ran /\ SeqRange(out.msgs) \cap LoadFailureMsgs # {} => file.status # "ok"
    /\ out.ran /\ page # "variance" =>
          (Wrote("warning: No data loaded")
             <=> /\ out.exc = "none"
                 /\ file.status # "ok" \/ Len(file.sheet.rows) = 0)

\* C11 witness: hilal.py has loaded rows and the selected filters left none.
C11_Witness == page = "hilal" /\ NarrowedToZero /\ ~IsEmpty(out.df)


\* the three columns the metric derivation of the page adds
DerivedCols == <<TotalSales, TotalProfit, RatioCol>>

\* C12 as stated: between interactions only the raw file read is kept: the cached
\* table is the sheet as read, without derived columns, and no derived table or
\* aggregate is held over for a later interaction.
C12_OnlyRawReadKept ==
    /\ cache.hit /\ file.status = "ok" => cache.val.df = LoadedSheet
    /\ ~session.df_data.some /\ ~session.df_category_agg.some

\* what the views of the last run show is computed from the tables kept and the
\* present selection alone
ViewIsOfPresentSelection ==
    /\ page # "variance" /\ out.view.kind = "filtered" =>
          /\ out.view.filtered_df.rows = SelectSeq(out.df.rows, HilalPasses)
          /\ out.view.total_sales = ColSum(out.view.filtered_df, TotalSales)
          /\ out.view.total_profit = ColSum(out.view.filtered_df, TotalProfit)
    /\ page = "variance" /\ out.ran /\ session.df_data.some =>
          /\ out.view.kind = IF sel.category = AllCategories THEN "category" ELSE "item"
          /\ out.view.kind = "item" =>
                out.view.filtered_df.rows
                   = SelectSeq(session.df_data.v.rows,
                               LAMBDA row : ItemPasses(session.df_data.v, row))
          /\ out.view.kind = "category" =>
                out.view.filtered_df = session.df_category_agg.v

\* what is kept between interactions: in hilal.py and stock.py the cached value
\* of load_data, which carries the derived columns; in variance.py the cached raw
\* table, without derived columns, and in session state the derived item table
\* and the category aggregate
KeptTables ==
    /\ page # "variance" /\ out.ran /\ out.exc = "none" =>
          /\ cache.hit /\ cache.val.df = out.df
          /\ file.status = "ok" => out.df.cols = file.sheet.cols \o DerivedCols
    /\ page = "variance" /\ out.ran =>
          /\ cache.hit
          /\ file.status = "ok" => cache.val.df.cols = LoadedCols
          /\ session.df_data.some =>
                /\ session.df_category_agg.some
                /\ session.df_data.v.cols = LoadedCols \o DerivedCols

\* a rerun serves the kept tables as they are
KeptTablesReused ==
    /\ cache.hit => cache' = cache
    /\ session.df_data.some => session' = session

\* C12 as amended: in hilal.py and stock.py the cached value of load_data is the
\* table with Total Sales, Total Profit and GP% already derived, so that the read
\* and the derivation are both served from the cache and only the filtered result
\* and its totals are recomputed in every interaction; in variance.py the cache
\* holds the raw table, while the derived item table and the category aggregates
\* are computed by the first successful run, kept in session state and reused
\* unchanged by every later interaction, which recomputes only its view.
C12_KeptAndRecomputed ==
    [](KeptTables /\ ViewIsOfPresentSelection) /\ [][KeptTablesReused]_vars

\* C12 witness: a rerun of hilal.py with a changed selection, served from the
\* cache.
C12_Witness ==
    /\ page = "hilal" /\ cache.hit /\ sel # DefaultSel
    /\ out.view.kind = "filtered" /\ ~IsEmpty(out.view.filtered_df)


\* the tables held in session state are as the processing made them: numeric
\* totals and ratios, the aggregate under its own column names
StoredTablesNumeric ==
    session.df_data.some =>
       /\ session.df_category_agg.v.cols = <<Category, Total_Sales, Total_Profit, GP>>
       /\ \A i \in 1..Len(session.df_category_agg.v.rows) :
             \A c \in {Total_Sales, Total_Profit, GP} :
                IsNum(session.df_category_agg.v.rows[i][c])
       /\ \A i \in 1..Len(session.df_data.v.rows) :
             \A c \in {TotalSales, TotalProfit, GP} : IsNum(session.df_data.v.rows[i][c])

\* C13 as stated: every operation after the read leaves the table it was given
\* unchanged: the table load_data handed to the run is at the end of the run as it
\* was handed over, and the stored tables keep their numeric columns.
C13_InputsLeftUnchanged ==
    /\ out.ran => out.df_left = out.df
    /\ StoredTablesNumeric

\* process_and_aggregate_data of the last run got past its first check, so that it
\* assigned to columns of the table it was given
ProcessingAssigned ==
    /\ page = "variance" /\ out.ran /\ ~IsEmpty(out.df)
    /\ SelectSeq(LoadedCols, IsMetricCol) # <<>>

\* what a run does to the table load_data handed to it
RunTableEffect ==
    /\ out.ran /\ ~ProcessingAssigned => out.df_left = out.df
    /\ ProcessingAssigned =>
          /\ out.df_left.cols = out.df.cols \o <<TotalSales, TotalProfit, GP>>
          /\ Len(out.df_left.rows) = Len(out.df.rows)
          /\ cache.val.df = out.df

\* a rerun leaves the cached table and the tables of session state as they were
StoredTablesUnchanged ==
    /\ cache.hit => cache'.val = cache.val
    /\ session.df_data.some =>
          /\ session'.df_data = session.df_data
          /\ session'.df_category_agg = session.df_category_agg

\* C13 as amended: the filter block of hilal.py and stock.py and the two render
\* functions of variance.py leave the table they are given unchanged, and no run
\* modifies a stored table: the cached table and, once set, df_data and
\* df_category_agg stay as they are, with their numeric columns never replaced by
\* formatted text. process_and_aggregate_data, however, assigns to the table it is
\* given: once it has found metric columns it appends Total Sales, Total Profit
\* and GP to its argument; that argument is the copy st.cache_data handed to the
\* run, so the cached table is not touched.
C13_StoredTablesLeftUnchanged ==
    [](RunTableEffect /\ StoredTablesNumeric) /\ [][StoredTablesUnchanged]_vars

\* C13 witness: variance.py has drawn the category view and now draws an item
\* view with a formatted table from the stored tables.
C13_Witness ==
    /\ page = "variance" /\ session.df_data.some
    /\ out.view.kind = "item" /\ ~IsEmpty(out.view.table)


\* the categories of a table, as texts
CategoryTexts(df) == {df.rows[i][Category].s : i \in 1..Len(df.rows)}

\* the three values of session state are those of one call of
\* process_and_aggregate_data on the table read from the file: the metric list is
\* that of the sheet's headers, the aggregate has one row for each category of the
\* item table, and the totals of the two tables agree
FromOneProcessingCall ==
    /\ session.monthly_metrics = SelectSeq(LoadedCols, IsMetricCol)
    /\ session.df_data.v.cols = LoadedCols \o <<TotalSales, TotalProfit, GP>>
    /\ CategoryTexts(session.df_category_agg.v) = CategoryTexts(session.df_data.v)
    /\ Len(session.df_category_agg.v.rows)
          = Cardinality(CategoryTexts(session.df_data.v))
    /\ ColSum(session.df_category_agg.v, Total_Sales)
          = ColSum(session.df_data.v, TotalSales)
    /\ ColSum(session.df_category_agg.v, Total_Profit)
          = ColSum(session.df_data.v, TotalProfit)

\* the session state of variance.py after a run
SessionConsistent ==
    /\ session.df_data.some =>
          /\ file.status = "ok" /\ Len(file.sheet.rows) > 0
          /\ ~IsEmpty(session.df_data.v)
          /\ session.df_category_agg.some /\ ~IsEmpty(session.df_category_agg.v)
          /\ session.monthly_metrics # <<>>
          /\ FromOneProcessingCall
    /\ ~session.df_data.some =>
          ~session.df_category_agg.some /\ session.monthly_metrics = <<>>
    /\ out.ran => (out.view.kind \in {"category", "item"} <=> session.df_data.some)
    /\ ~out.ran => out.view.kind = "none"

\* once df_data is set, a rerun calls load_data no more and leaves the three
\* values as they are
SessionFrozen ==
    session.df_data.some =>
       /\ session'.df_data = session.df_data
       /\ session'.df_category_agg = session.df_category_agg
       /\ session'.monthly_metrics = session.monthly_metrics
       /\ cache' = cache /\ IsEmpty(out'.df)

\* C14: in variance.py, after any sequence of reruns of main(), df_data is set
\* only if the load returned a table with rows and the processing returned an item
\* table with rows; when it is set, df_category_agg is set and monthly_metrics is
\* not empty, all three from one processing call; a category or item view is drawn
\* only then; and once df_data is set no rerun reloads or changes the three.
C14_SessionStateConsistent ==
    [](page = "variance" => SessionConsistent)
       /\ [][page = "variance" => SessionFrozen]_vars

\* C14 witness: variance.py has processed the file and a later rerun, with another
\* selection, drew an item view from the stored tables.
C14_Witness ==
    /\ page = "variance" /\ session.df_data.some
    /\ sel # VarianceDefaultSel /\ IsEmpty(out.df) /\ out.view.kind = "item"

=============================================================================
